---- MODULE Spec2Model ----
(***************************************************************************)
(* A model of package form (github.com/hunterwilkins2/form): Unmarshal     *)
(* fills the tagged fields of a struct from the form of an *http.Request,  *)
(* Marshal writes the tagged fields of a struct into the request's query.  *)
(*                                                                         *)
(* Strings are TLA+ strings read character by character, so that parsing   *)
(* and formatting are computed and not assumed.  An integer value is kept  *)
(* as a sign and a canonical decimal magnitude, which keeps the real 8,    *)
(* 16, 32 and 64 bit ranges.  The float and complex kinds are outside the  *)
(* kind set of this model.                                                 *)
(***************************************************************************)
EXTENDS Integers, Sequences, FiniteSets, TLC

VARIABLES
    st,        \* the struct type behind the pointer i: [name, fields]
    s,         \* s := rv.Elem(): the struct's field values, in declared order
    RawQuery,  \* r.URL.RawQuery
    Form,      \* r.Form: NilForm until ParseForm has run on the request
    pc,        \* "idle", "unmarshal", "marshal", "done"
    op,        \* the call that runs or has returned: "none", "Unmarshal", "Marshal"
    i,         \* the loop index of the running call (1-based)
    form,      \* Marshal's local url.Values
    err,       \* the error the last call returned (Nil: none)
    pre,       \* history: the argument of the current call, and the record, query
               \* and form as the call found them
    sent,      \* history: the record whose query was sent on in a new request
    kept,      \* history: what the caller kept of an Unmarshal call that returned
    other      \* a call in a second goroutine, with a request and a struct of its
               \* own: a record of what the variables above are for the first

vars == <<st, s, RawQuery, Form, pc, op, i, form, err, pre, sent, kept, other>>

(***************************************************************************)
(* Bounds.                                                                 *)
(***************************************************************************)
\* the most key=value pairs a request's query holds at Init
MaxValues == 3

(***************************************************************************)
(* Characters and decimal magnitudes.                                      *)
(***************************************************************************)
Char(str, k) == SubSeq(str, k, k)

Digits == "0123456789"

IsDigit(c) == \E k \in 1..10 : Char(Digits, k) = c

DigitVal(c) == (CHOOSE k \in 1..10 : Char(Digits, k) = c) - 1

RECURSIVE StripZeros(_)
StripZeros(d) ==
    IF Len(d) > 1 /\ Head(d) = "0" THEN StripZeros(Tail(d)) ELSE d

RECURSIVE LexLess(_, _)
LexLess(a, b) ==
    IF a = "" THEN FALSE
    ELSE IF Head(a) # Head(b) THEN DigitVal(Head(a)) < DigitVal(Head(b))
    ELSE LexLess(Tail(a), Tail(b))

\* a < b for canonical decimal magnitudes
MagLess(a, b) ==
    \/ Len(a) < Len(b)
    \/ Len(a) = Len(b) /\ LexLess(a, b)

(***************************************************************************)
(* strconv: ParseUint, ParseInt, ParseBool as the package calls them       *)
(* (base 10, bit size 64).                                                 *)
(***************************************************************************)
ErrSyntax == "invalid syntax"
ErrRange == "value out of range"

MaxUint64 == "18446744073709551615"
\* 1<<63, the cutoff of ParseInt
Cutoff63 == "9223372036854775808"
MaxInt64 == "9223372036854775807"

\* *strconv.NumError's message
NumError(fn, num, e) == "strconv." \o fn \o ": parsing \"" \o num \o "\": " \o e

RECURSIVE ScanUint(_, _, _)
ScanUint(str, k, n) ==
    IF k > Len(str) THEN [v |-> n, e |-> ""]
    ELSE LET c == Char(str, k) IN
         IF ~IsDigit(c) THEN [v |-> "0", e |-> ErrSyntax]
         ELSE LET n1 == StripZeros(n \o c) IN
              IF MagLess(MaxUint64, n1) THEN [v |-> MaxUint64, e |-> ErrRange]
              ELSE ScanUint(str, k + 1, n1)

\* strconv.ParseUint(str, 10, 64): [v: magnitude, e: "" or the error]
ParseUint(str) ==
    IF str = "" THEN [v |-> "0", e |-> ErrSyntax] ELSE ScanUint(str, 1, "0")

\* strconv.ParseInt(str, 10, 64): [v: [neg, mag], e: "" or the error]
ParseInt(str) ==
    IF str = "" THEN [v |-> [neg |-> FALSE, mag |-> "0"], e |-> ErrSyntax]
    ELSE LET neg == Head(str) = "-"
             rest == IF Head(str) \in {"+", "-"} THEN Tail(str) ELSE str
             un == ParseUint(rest)
         IN  IF un.e = ErrSyntax
                THEN [v |-> [neg |-> FALSE, mag |-> "0"], e |-> ErrSyntax]
             ELSE IF ~neg /\ ~MagLess(un.v, Cutoff63)
                THEN [v |-> [neg |-> FALSE, mag |-> MaxInt64], e |-> ErrRange]
             ELSE IF neg /\ MagLess(Cutoff63, un.v)
                THEN [v |-> [neg |-> TRUE, mag |-> Cutoff63], e |-> ErrRange]
             ELSE [v |-> [neg |-> neg /\ un.v # "0", mag |-> un.v], e |-> ""]

\* strconv.ParseBool(str): [v: BOOLEAN, e: "" or the error]
ParseBool(str) ==
    IF str \in {"1", "t", "T", "TRUE", "true", "True"} THEN [v |-> TRUE, e |-> ""]
    ELSE IF str \in {"0", "f", "F", "FALSE", "false", "False"} THEN [v |-> FALSE, e |-> ""]
    ELSE [v |-> FALSE, e |-> ErrSyntax]

(***************************************************************************)
(* reflect: types, kinds, zero values, the range checks.                   *)
(***************************************************************************)
Scalar(k) == [kind |-> k, elem |-> "", len |-> 0]
SliceOf(k) == [kind |-> "slice", elem |-> k, len |-> 0]
ArrayOf(n, k) == [kind |-> "array", elem |-> k, len |-> n]

IntKinds == {"int", "int8", "int16", "int32", "int64"}
UintKinds == {"uint", "uint8", "uint16", "uint32", "uint64"}

\* reflect.Type.String() of a scalar type; the two unsupported kinds of the
\* tests stand for every kind the switch does not list
KindString(k) ==
    CASE k = "map" -> "map[string]string"
      [] k = "struct" -> "struct {}"
      [] OTHER -> k

TypeString(t) ==
    CASE t.kind = "slice" -> "[]" \o KindString(t.elem)
      [] t.kind = "array" -> "[" \o ToString(t.len) \o "]" \o KindString(t.elem)
      [] OTHER -> KindString(t.kind)

\* the size in bits of an integer kind (int and uint: a 64-bit platform)
Bits(k) ==
    CASE k \in {"int8", "uint8"} -> 8
      [] k \in {"int16", "uint16"} -> 16
      [] k \in {"int32", "uint32"} -> 32
      [] OTHER -> 64

IntVal(neg, mag) == [neg |-> neg, mag |-> mag]

\* OverflowInt with the limits of the unsigned kind of the same size (a
\* variant the checks of C5 must tell apart)
OverflowIntUnsignedLimits(k, v) ==
    LET b == Bits(k)
        max == CASE b = 8 -> "255" [] b = 16 -> "65535"
                 [] b = 32 -> "4294967295" [] OTHER -> MaxInt64
    IN  MagLess(max, v.mag)

\* reflect.Value.OverflowInt: v does not fit the kind's signed range
OverflowInt(k, v) ==
    LET b == Bits(k)
        max == CASE b = 8 -> "127" [] b = 16 -> "32767"
                 [] b = 32 -> "2147483647" [] OTHER -> MaxInt64
        min == CASE b = 8 -> "128" [] b = 16 -> "32768"
                 [] b = 32 -> "2147483648" [] OTHER -> Cutoff63
    IN  IF v.neg THEN MagLess(min, v.mag) ELSE MagLess(max, v.mag)

\* OverflowUint with 1<<bits as the greatest value that fits (a variant the
\* checks of C4 must tell apart)
OverflowUintOffByOne(k, mag) ==
    LET b == Bits(k)
        max == CASE b = 8 -> "256" [] b = 16 -> "65536"
                 [] b = 32 -> "4294967296" [] OTHER -> MaxUint64
    IN  MagLess(max, mag)

\* reflect.Value.OverflowUint: the magnitude does not fit the kind's range
OverflowUint(k, mag) ==
    LET b == Bits(k)
        max == CASE b = 8 -> "255" [] b = 16 -> "65535"
                 [] b = 32 -> "4294967295" [] OTHER -> MaxUint64
    IN  MagLess(max, mag)

\* the zero value of a kind, and of a type
ZeroOf(k) ==
    CASE k = "string" -> ""
      [] k = "bool" -> FALSE
      [] k \in IntKinds \cup UintKinds -> IntVal(FALSE, "0")
      [] OTHER -> [entries |-> <<>>]

Zero(t) ==
    CASE t.kind = "slice" -> <<>>
      [] t.kind = "array" -> [k \in 1..t.len |-> ZeroOf(t.elem)]
      [] OTHER -> ZeroOf(t.kind)

(***************************************************************************)
(* Errors.                                                                 *)
(***************************************************************************)
Nil == [kind |-> "nil"]

UnmarshalTypeError(value, type, e) ==
    [kind |-> "UnmarshalTypeError", Value |-> value, Type |-> type,
     Struct |-> "", Field |-> "", Err |-> e]

MarshalTypeError(type, value) ==
    [kind |-> "MarshalTypeError", Type |-> type, Value |-> value,
     Struct |-> "", Field |-> ""]

\* fmt.Errorf("%s overflows %s value", value, f.Type())
OverflowMsg(value, k) == value \o " overflows " \o KindString(k) \o " value"

\* fmt.Errorf("type %s cannot be unmarshalled from form", f.Type())
UnsupportedMsg(k) == "type " \o KindString(k) \o " cannot be unmarshalled from form"

\* fmt.Errorf("cannot use [%d]%s as %s value in struct", ...)
ArrayLenMsg(n, t) ==
    "cannot use [" \o ToString(n) \o "]" \o KindString(t.elem) \o " as "
        \o TypeString(t) \o " value in struct"

MoreThanOneMsg == "cannot unmarshal more than one value for non-slice field"

\* strings.Join(values, sep)
RECURSIVE Join(_, _)
Join(values, sep) ==
    IF Len(values) = 0 THEN ""
    ELSE IF Len(values) = 1 THEN values[1]
    ELSE values[1] \o sep \o Join(Tail(values), sep)

\* "[" + strings.Join(values, ", ") + "]"
Bracketed(values) == "[" \o Join(values, ", ") \o "]"

(***************************************************************************)
(* reflect.Value: [type, v, ro].  ro is the read-only flag of a value       *)
(* reached through an unexported struct field; the struct itself is        *)
(* reached through a pointer and is addressable.                           *)
(***************************************************************************)
Value(t, v, ro) == [type |-> t, v |-> v, ro |-> ro]

\* s.Field(k) with s.Type().Field(k)
Field(typ, vals, k) == Value(typ.fields[k].type, vals[k], ~typ.fields[k].exported)

\* f.Index(k) of a slice or array (0-based there, 1-based here)
Index(f, k) == Value(Scalar(f.type.elem), f.v[k], f.ro)

Kind(f) == f.type.kind

CanSet(f) == ~f.ro

(***************************************************************************)
(* parseFormValue, parseFormValues.  The Go functions write through the    *)
(* reflect.Value f and return the error; here they return the value f      *)
(* holds afterwards (f.v when nothing was set) and the error.              *)
(***************************************************************************)
\* parseFormValue with a default case that returns nil (a variant the checks
\* of C15 must tell apart)
parseFormValueSkippingOthers(f, value) ==
    CASE Kind(f) = "string" -> [v |-> value, err |-> Nil]
      [] Kind(f) = "bool" ->
            LET r == ParseBool(value) IN
            IF r.e # ""
               THEN [v |-> f.v, err |-> UnmarshalTypeError(value, TypeString(f.type),
                                            NumError("ParseBool", value, r.e))]
               ELSE [v |-> r.v, err |-> Nil]
      [] Kind(f) \in IntKinds ->
            LET r == ParseInt(value) IN
            IF r.e # ""
               THEN [v |-> f.v, err |-> UnmarshalTypeError(value, TypeString(f.type),
                                            NumError("ParseInt", value, r.e))]
            ELSE IF OverflowInt(Kind(f), r.v)
               THEN [v |-> f.v, err |-> UnmarshalTypeError(value, TypeString(f.type),
                                            OverflowMsg(value, Kind(f)))]
            ELSE [v |-> r.v, err |-> Nil]
      [] Kind(f) \in UintKinds ->
            LET r == ParseUint(value) IN
            IF r.e # ""
               THEN [v |-> f.v, err |-> UnmarshalTypeError(value, TypeString(f.type),
                                            NumError("ParseUint", value, r.e))]
            ELSE IF OverflowUint(Kind(f), r.v)
               THEN [v |-> f.v, err |-> UnmarshalTypeError(value, TypeString(f.type),
                                            OverflowMsg(value, Kind(f)))]
            ELSE [v |-> IntVal(FALSE, r.v), err |-> Nil]
      [] OTHER -> [v |-> f.v, err |-> Nil]

parseFormValue(f, value) ==
    CASE Kind(f) = "string" -> [v |-> value, err |-> Nil]
      [] Kind(f) = "bool" ->
            LET r == ParseBool(value) IN
            IF r.e # ""
               THEN [v |-> f.v, err |-> UnmarshalTypeError(value, TypeString(f.type),
                                            NumError("ParseBool", value, r.e))]
               ELSE [v |-> r.v, err |-> Nil]
      [] Kind(f) \in IntKinds ->
            LET r == ParseInt(value) IN
            IF r.e # ""
               THEN [v |-> f.v, err |-> UnmarshalTypeError(value, TypeString(f.type),
                                            NumError("ParseInt", value, r.e))]
            ELSE IF OverflowInt(Kind(f), r.v)
               THEN [v |-> f.v, err |-> UnmarshalTypeError(value, TypeString(f.type),
                                            OverflowMsg(value, Kind(f)))]
            ELSE [v |-> r.v, err |-> Nil]
      [] Kind(f) \in UintKinds ->
            LET r == ParseUint(value) IN
            IF r.e # ""
               THEN [v |-> f.v, err |-> UnmarshalTypeError(value, TypeString(f.type),
                                            NumError("ParseUint", value, r.e))]
            ELSE IF OverflowUint(Kind(f), r.v)
               THEN [v |-> f.v, err |-> UnmarshalTypeError(value, TypeString(f.type),
                                            OverflowMsg(value, Kind(f)))]
            ELSE [v |-> IntVal(FALSE, r.v), err |-> Nil]
      [] OTHER ->
            [v |-> f.v, err |-> UnmarshalTypeError(value, TypeString(f.type),
                                    UnsupportedMsg(Kind(f)))]

\* parseElements returning the error of the element as it is (a variant the
\* checks of C18 must tell apart)
parseElementsElementError(f, values) ==
    LET n == Len(values)
        fresh == Value(f.type, [k \in 1..n |-> ZeroOf(f.type.elem)], FALSE)
        res == [k \in 1..n |-> parseFormValue(Index(fresh, k), values[k])]
        bad == {k \in 1..n : res[k].err # Nil}
    IN  IF bad # {}
           THEN LET k == CHOOSE x \in bad : \A y \in bad : x <= y IN
                [v |-> f.v, err |-> res[k].err]
           ELSE [v |-> [k \in 1..n |-> res[k].v], err |-> Nil]

\* parseElements appending to what the field holds instead of replacing it
\* (a variant the checks of C6 and of C22 must tell apart)
parseElementsAppending(f, values) ==
    LET n == Len(values)
        fresh == Value(f.type, [k \in 1..n |-> ZeroOf(f.type.elem)], FALSE)
        res == [k \in 1..n |-> parseFormValue(Index(fresh, k), values[k])]
        bad == {k \in 1..n : res[k].err # Nil}
    IN  IF bad # {}
           THEN LET k == CHOOSE x \in bad : \A y \in bad : x <= y IN
                [v |-> f.v,
                 err |-> [res[k].err EXCEPT !.Value = Bracketed(values),
                                            !.Type = TypeString(f.type)]]
           ELSE [v |-> f.v \o [k \in 1..n |-> res[k].v], err |-> Nil]

\* parseElements parsing each value into the element of f itself, without
\* the fresh sequence (a variant the checks of C21 must tell apart)
parseElementsInPlace(f, values) ==
    LET n == Len(values)
        fresh == Value(f.type, [k \in 1..n |-> ZeroOf(f.type.elem)], FALSE)
        res == [k \in 1..n |-> parseFormValue(Index(fresh, k), values[k])]
        bad == {k \in 1..n : res[k].err # Nil}
    IN  IF bad # {}
           THEN LET k == CHOOSE x \in bad : \A y \in bad : x <= y IN
                [v |-> [p \in 1..Len(f.v) |-> IF p < k THEN res[p].v ELSE f.v[p]],
                 err |-> [res[k].err EXCEPT !.Value = Bracketed(values),
                                            !.Type = TypeString(f.type)]]
           ELSE [v |-> [k \in 1..n |-> res[k].v], err |-> Nil]

\* the loop over the values of a slice or array field: s is the fresh
\* sequence (reflect.MakeSlice, reflect.New(arr).Elem()), each value is
\* parsed into s.Index(k), the first failure returns, f.Set(s) comes last
parseElements(f, values) ==
    LET n == Len(values)
        fresh == Value(f.type, [k \in 1..n |-> ZeroOf(f.type.elem)], FALSE)
        res == [k \in 1..n |-> parseFormValue(Index(fresh, k), values[k])]
        bad == {k \in 1..n : res[k].err # Nil}
    IN  IF bad # {}
           THEN LET k == CHOOSE x \in bad : \A y \in bad : x <= y IN
                [v |-> f.v,
                 err |-> [res[k].err EXCEPT !.Value = Bracketed(values),
                                            !.Type = TypeString(f.type)]]
           ELSE [v |-> [k \in 1..n |-> res[k].v], err |-> Nil]

\* parseFormValues without the check of f.CanSet() (a variant the checks of
\* C16 must tell apart)
parseFormValuesAnyField(f, values) ==
    IF Len(values) = 0 THEN [v |-> f.v, err |-> Nil]
    ELSE IF Kind(f) = "slice" THEN parseElements(f, values)
    ELSE IF Kind(f) = "array" THEN
        IF f.type.len # Len(values)
           THEN [v |-> f.v,
                 err |-> UnmarshalTypeError(Bracketed(values), TypeString(f.type),
                             ArrayLenMsg(Len(values), f.type))]
           ELSE parseElements(f, values)
    ELSE IF Len(values) # 1
       THEN [v |-> f.v,
             err |-> UnmarshalTypeError(Bracketed(values), TypeString(f.type),
                         MoreThanOneMsg)]
    ELSE parseFormValue(f, values[1])

\* parseFormValues without the check of line 533: a scalar field takes the
\* first of several values (a variant the checks of C2 must tell apart)
parseFormValuesFirstValue(f, values) ==
    IF Len(values) = 0 \/ ~CanSet(f) THEN [v |-> f.v, err |-> Nil]
    ELSE IF Kind(f) = "slice" THEN parseElements(f, values)
    ELSE IF Kind(f) = "array" THEN
        IF f.type.len # Len(values)
           THEN [v |-> f.v,
                 err |-> UnmarshalTypeError(Bracketed(values), TypeString(f.type),
                             ArrayLenMsg(Len(values), f.type))]
           ELSE parseElements(f, values)
    ELSE parseFormValue(f, values[1])

\* parseFormValues without the check of line 512: an array field takes as
\* many elements as there are values (a variant the checks of C3 must tell
\* apart)
parseFormValuesAnyLen(f, values) ==
    IF Len(values) = 0 \/ ~CanSet(f) THEN [v |-> f.v, err |-> Nil]
    ELSE IF Kind(f) = "slice" \/ Kind(f) = "array" THEN parseElements(f, values)
    ELSE IF Len(values) # 1
       THEN [v |-> f.v,
             err |-> UnmarshalTypeError(Bracketed(values), TypeString(f.type),
                         MoreThanOneMsg)]
    ELSE parseFormValue(f, values[1])

parseFormValues(f, values) ==
    IF Len(values) = 0 \/ ~CanSet(f) THEN [v |-> f.v, err |-> Nil]
    ELSE IF Kind(f) = "slice" THEN parseElements(f, values)
    ELSE IF Kind(f) = "array" THEN
        IF f.type.len # Len(values)
           THEN [v |-> f.v,
                 err |-> UnmarshalTypeError(Bracketed(values), TypeString(f.type),
                             ArrayLenMsg(Len(values), f.type))]
           ELSE parseElements(f, values)
    ELSE IF Len(values) # 1
       THEN [v |-> f.v,
             err |-> UnmarshalTypeError(Bracketed(values), TypeString(f.type),
                         MoreThanOneMsg)]
    ELSE parseFormValue(f, values[1])

(***************************************************************************)
(* net/url: url.Values is a function from the keys present to their        *)
(* values in order; Encode, QueryEscape, ParseQuery, QueryUnescape over    *)
(* printable ASCII.                                                        *)
(***************************************************************************)
\* bytes 32..126 in order; a tab holds the place of the backquote (byte 96),
\* which a TLA+ string cannot hold and no string of the model contains
Ascii == " !\"#$%&'()*+,-./0123456789:;<=>?@ABCDEFGHIJKLMNOPQRSTUVWXYZ[\\]^_\tabcdefghijklmnopqrstuvwxyz{|}~"

Hex == "0123456789ABCDEF"

\* the byte of a printable character
Ord(c) == 31 + (CHOOSE k \in 1..Len(Ascii) : Char(Ascii, k) = c)

RECURSIVE StrLess(_, _)
StrLess(a, b) ==
    IF b = "" THEN FALSE
    ELSE IF a = "" THEN TRUE
    ELSE IF Head(a) # Head(b) THEN Ord(Head(a)) < Ord(Head(b))
    ELSE StrLess(Tail(a), Tail(b))

EmptyValues == [k \in {} |-> <<>>]

\* m[key]: nil for a key the map does not hold
Get(m, key) == IF key \in DOMAIN m THEN m[key] ELSE <<>>

\* url.Values.Add
Add(m, key, value) ==
    [k \in DOMAIN m \cup {key} |->
        IF k = key THEN Get(m, key) \o <<value>> ELSE m[k]]

\* url.shouldEscape(c, encodeQueryComponent)
shouldEscape(c) ==
    LET b == Ord(c) IN
    ~ \/ 48 <= b /\ b <= 57
      \/ 65 <= b /\ b <= 90
      \/ 97 <= b /\ b <= 122
      \/ c \in {"-", "_", ".", "~"}

RECURSIVE QueryEscape(_)
QueryEscape(str) ==
    IF str = "" THEN ""
    ELSE LET c == Head(str)
             e == IF c = " " THEN "+"
                  ELSE IF shouldEscape(c)
                     THEN "%" \o Char(Hex, (Ord(c) \div 16) + 1)
                              \o Char(Hex, (Ord(c) % 16) + 1)
                  ELSE c
         IN  e \o QueryEscape(Tail(str))

\* the values of one key, "k=v1&k=v2"
RECURSIVE EncodeKey(_, _)
EncodeKey(key, values) ==
    IF Len(values) = 0 THEN ""
    ELSE QueryEscape(key) \o "=" \o QueryEscape(values[1])
         \o (IF Len(values) > 1 THEN "&" \o EncodeKey(key, Tail(values)) ELSE "")

RECURSIVE EncodeKeys(_, _)
EncodeKeys(m, keys) ==
    IF keys = {} THEN ""
    ELSE LET k == CHOOSE x \in keys : \A y \in keys : x = y \/ StrLess(x, y)
             rest == EncodeKeys(m, keys \ {k})
             this == EncodeKey(k, m[k])
         IN  IF this = "" THEN rest
             ELSE IF rest = "" THEN this
             ELSE this \o "&" \o rest

\* Encode with the keys in descending order (a variant the checks of C20
\* must tell apart)
RECURSIVE EncodeKeysDescending(_, _)
EncodeKeysDescending(m, keys) ==
    IF keys = {} THEN ""
    ELSE LET k == CHOOSE x \in keys : \A y \in keys : x = y \/ StrLess(y, x)
             rest == EncodeKeysDescending(m, keys \ {k})
             this == EncodeKey(k, m[k])
         IN  IF this = "" THEN rest
             ELSE IF rest = "" THEN this
             ELSE this \o "&" \o rest

EncodeDescending(m) == EncodeKeysDescending(m, DOMAIN m)

\* url.Values.Encode: "sorted by key"
Encode(m) == EncodeKeys(m, DOMAIN m)

\* the first position of character c in str, 0 when absent
RECURSIVE IndexOf(_, _)
IndexOf(str, c) ==
    IF str = "" THEN 0
    ELSE IF Head(str) = c THEN 1
    ELSE LET k == IndexOf(Tail(str), c) IN IF k = 0 THEN 0 ELSE k + 1

\* strings.Cut(str, sep): <<before, after>>
Cut(str, sep) ==
    LET k == IndexOf(str, sep) IN
    IF k = 0 THEN <<str, "">>
    ELSE <<SubSeq(str, 1, k - 1), SubSeq(str, k + 1, Len(str))>>

IsHex(c) == \E k \in 1..16 : Char("0123456789ABCDEF", k) = c \/ Char("0123456789abcdef", k) = c

UnHex(c) ==
    (CHOOSE k \in 1..16 :
        Char("0123456789ABCDEF", k) = c \/ Char("0123456789abcdef", k) = c) - 1

\* url.QueryUnescape, the first pass: every % is followed by two hex digits
RECURSIVE EscapesOk(_)
EscapesOk(str) ==
    IF str = "" THEN TRUE
    ELSE IF Head(str) = "%"
       THEN /\ Len(str) >= 3
            /\ IsHex(Char(str, 2))
            /\ IsHex(Char(str, 3))
            /\ EscapesOk(SubSeq(str, 4, Len(str)))
    ELSE EscapesOk(Tail(str))

\* the second pass
RECURSIVE Unescaped(_)
Unescaped(str) ==
    IF str = "" THEN ""
    ELSE IF Head(str) = "%"
       THEN Char(Ascii, 16 * UnHex(Char(str, 2)) + UnHex(Char(str, 3)) - 31)
            \o Unescaped(SubSeq(str, 4, Len(str)))
    ELSE IF Head(str) = "+" THEN " " \o Unescaped(Tail(str))
    ELSE Head(str) \o Unescaped(Tail(str))

\* the at most three bytes from the first % that is not followed by two hex
\* digits
RECURSIVE BadEscape(_)
BadEscape(str) ==
    IF str = "" THEN ""
    ELSE IF Head(str) = "%"
       THEN IF Len(str) >= 3 /\ IsHex(Char(str, 2)) /\ IsHex(Char(str, 3))
               THEN BadEscape(SubSeq(str, 4, Len(str)))
               ELSE SubSeq(str, 1, IF Len(str) > 3 THEN 3 ELSE Len(str))
    ELSE BadEscape(Tail(str))

\* strconv.Quote of printable ASCII
RECURSIVE Quoted(_)
Quoted(str) ==
    IF str = "" THEN ""
    ELSE (IF Head(str) \in {"\"", "\\"} THEN "\\" ELSE "") \o Head(str) \o Quoted(Tail(str))

Quote(str) == "\"" \o Quoted(str) \o "\""

\* url.EscapeError.Error
EscapeError(str) == "invalid URL escape " \o Quote(str)

\* url.QueryUnescape: [v, e]
QueryUnescape(str) ==
    IF EscapesOk(str) THEN [v |-> Unescaped(str), e |-> ""]
    ELSE [v |-> "", e |-> EscapeError(BadEscape(str))]

\* url.parseQuery(m, query): [m, e], e the error ParseQuery returns ("": none)
RECURSIVE parseQuery(_, _, _)
parseQuery(m, query, e) ==
    IF query = "" THEN [m |-> m, e |-> e]
    ELSE LET c == Cut(query, "&")
             seg == c[1]
             kv == Cut(seg, "=")
             key == QueryUnescape(kv[1])
             val == QueryUnescape(kv[2])
         IN  IF IndexOf(seg, ";") # 0
                THEN parseQuery(m, c[2], "invalid semicolon separator in query")
             ELSE IF seg = "" THEN parseQuery(m, c[2], e)
             ELSE IF key.e # ""
                THEN parseQuery(m, c[2], IF e = "" THEN key.e ELSE e)
             ELSE IF val.e # ""
                THEN parseQuery(m, c[2], IF e = "" THEN val.e ELSE e)
             ELSE parseQuery(Add(m, key.v, val.v), c[2], e)

ParseQuery(query) == parseQuery(EmptyValues, query, "")

(***************************************************************************)
(* marshalFormValue, marshalFormValues: they return Marshal's local form   *)
(* as they leave it, and the error.                                        *)
(***************************************************************************)
\* fmt.Sprintf("%t", f.Bool())
FormatBool(b) == IF b THEN "true" ELSE "false"

\* FormatInt without the sign (a variant the checks of C14 must tell apart)
FormatIntMagnitude(v) == v.mag

\* fmt.Sprintf("%d", f.Int()) and fmt.Sprintf("%d", f.Uint())
FormatInt(v) == (IF v.neg THEN "-" ELSE "") \o v.mag

\* f.Interface(): the value as an interface{}, which knows its type
Interface(f) == [type |-> TypeString(f.type), v |-> f.v]

\* f.Interface() panics on a value obtained from an unexported field
Panic == [kind |-> "panic",
          msg |-> "reflect.Value.Interface: cannot return value obtained from unexported field or method"]

marshalFormValue(tag, f, m) ==
    CASE Kind(f) = "string" -> [form |-> Add(m, tag, f.v), err |-> Nil]
      [] Kind(f) = "bool" -> [form |-> Add(m, tag, FormatBool(f.v)), err |-> Nil]
      [] Kind(f) \in IntKinds -> [form |-> Add(m, tag, FormatInt(f.v)), err |-> Nil]
      [] Kind(f) \in UintKinds -> [form |-> Add(m, tag, FormatInt(f.v)), err |-> Nil]
      [] OTHER ->
            IF f.ro THEN [form |-> m, err |-> Panic]
            ELSE [form |-> m, err |-> MarshalTypeError(TypeString(f.type), Interface(f))]

\* the loop "for i := 0; i < f.Len(); i++" from element k on
RECURSIVE marshalElements(_, _, _, _)
marshalElements(tag, f, k, m) ==
    IF k > Len(f.v) THEN [form |-> m, err |-> Nil]
    ELSE LET r == marshalFormValue(tag, Index(f, k), m) IN
         IF r.err.kind = "MarshalTypeError"
            THEN [form |-> r.form,
                  err |-> [r.err EXCEPT !.Type = TypeString(f.type), !.Field = ""]]
         ELSE IF r.err # Nil THEN r
         ELSE marshalElements(tag, f, k + 1, r.form)

\* marshalFormValues with its loop starting at the second element (a
\* variant the checks of C8 must tell apart)
marshalFormValuesFromSecond(tag, f, m) ==
    IF Kind(f) = "slice" \/ Kind(f) = "array"
       THEN marshalElements(tag, f, 2, m)
       ELSE marshalFormValue(tag, f, m)

marshalFormValues(tag, f, m) ==
    IF Kind(f) = "slice" \/ Kind(f) = "array"
       THEN marshalElements(tag, f, 1, m)
       ELSE marshalFormValue(tag, f, m)

(***************************************************************************)
(* The records and requests of the model.                                  *)
(***************************************************************************)
Fld(name, tag, type, exported) ==
    [name |-> name, tag |-> tag, type |-> type, exported |-> exported]

Seven == IntVal(FALSE, "7")

AMap == [entries |-> <<"test", "123">>]

\* struct types with the values their fields hold at Init
Records ==
    { [st |-> [name |-> "s", fields |->
                <<Fld("A", "a", Scalar("string"), TRUE),
                  Fld("B", "", Scalar("string"), TRUE),
                  Fld("C", "b", Scalar("bool"), TRUE)>>],
       s |-> <<"a0", "b0", FALSE>>],
      [st |-> [name |-> "UrlFormData", fields |->
                <<Fld("Single", "a", Scalar("int8"), TRUE),
                  Fld("Slice", "b", SliceOf("int8"), TRUE),
                  Fld("Array", "c", ArrayOf(2, "int8"), TRUE)>>],
       s |-> <<Seven, <<Seven>>, <<Seven, Seven>>>>],
      [st |-> [name |-> "shared", fields |->
                <<Fld("X", "a", Scalar("string"), TRUE),
                  Fld("Y", "a", SliceOf("string"), TRUE),
                  Fld("w", "b", ArrayOf(2, "int8"), FALSE)>>],
       s |-> <<"x0", <<"y0", "y1">>, <<Seven, Seven>>>>],
      [st |-> [name |-> "withMap", fields |->
                <<Fld("N", "a", Scalar("int8"), TRUE),
                  Fld("M", "b", Scalar("map"), TRUE),
                  Fld("L", "c", Scalar("bool"), TRUE)>>],
       s |-> <<Seven, AMap, TRUE>>],
      [st |-> [name |-> "withMaps", fields |->
                <<Fld("N", "a", Scalar("int8"), TRUE),
                  Fld("T", "b", SliceOf("map"), TRUE),
                  Fld("L", "c", Scalar("bool"), TRUE)>>],
       s |-> <<Seven, <<>>, TRUE>>],
      [st |-> [name |-> "withMaps", fields |->
                <<Fld("N", "a", Scalar("int8"), TRUE),
                  Fld("T", "b", SliceOf("map"), TRUE),
                  Fld("L", "c", Scalar("bool"), TRUE)>>],
       s |-> <<Seven, <<AMap>>, TRUE>>],
      [st |-> [name |-> "hidden", fields |->
                <<Fld("z", "a", Scalar("int8"), FALSE),
                  Fld("A", "b", Scalar("string"), TRUE),
                  Fld("m", "c", Scalar("map"), FALSE)>>],
       s |-> <<Seven, "a0", AMap>>] }

Keys == {"", "a", "b", "c"}

Literals == {"1", "300", "x"}

\* the queries of at most MaxValues key=value pairs, as sequences of pairs
Pairs == UNION {[1..n -> Keys \X Literals] : n \in 0..MaxValues}

RECURSIVE FromPairs(_)
FromPairs(q) ==
    IF Len(q) = 0 THEN EmptyValues
    ELSE Add(FromPairs(SubSeq(q, 1, Len(q) - 1)), q[Len(q)][1], q[Len(q)][2])

\* queries url.ParseQuery reports an error for
Malformed == {"a=%zz&b=1", "a=1;b=1&c=1"}

Queries == {Encode(FromPairs(q)) : q \in Pairs} \cup Malformed

NilForm == [nil |-> TRUE, m |-> EmptyValues]

\* no second goroutine
NoOther == [pc |-> "none"]

\* no request has been sent on
NotSent == [ok |-> FALSE, s |-> <<>>, RawQuery |-> ""]

\* the caller has kept nothing
NotKept == [ok |-> FALSE]

\* what reflect.ValueOf sees of the second argument of Unmarshal and Marshal:
\* a pointer to the struct, the nil interface, the struct itself, a nil
\* pointer to the struct type, a pointer to an int
Pointer == [kind |-> "ptr", isNil |-> FALSE, elem |-> "struct"]

Arguments ==
    { Pointer,
      [kind |-> "invalid", isNil |-> FALSE, elem |-> ""],
      [kind |-> "struct", isNil |-> FALSE, elem |-> ""],
      [kind |-> "ptr", isNil |-> TRUE, elem |-> "struct"],
      [kind |-> "ptr", isNil |-> FALSE, elem |-> "int"] }

\* InvalidArgument without the look at what the pointer points to (a
\* variant the checks of C11 must tell apart)
InvalidArgumentPointerOnly(rv) == rv.kind # "ptr" \/ rv.isNil

\* rv.Kind() != reflect.Pointer || rv.IsNil(), then s.Kind() != reflect.Struct
InvalidArgument(rv) == rv.kind # "ptr" \/ rv.isNil \/ rv.elem # "struct"

InvalidUnmarshalError(rv) == [kind |-> "InvalidUnmarshalError", Type |-> rv]

InvalidMarshalError(rv) == [kind |-> "InvalidMarshalError", Type |-> rv]

\* e.Type.String() of an argument that is not nil: the struct types of the
\* tests are declared in package form_test
ArgumentTypeString(rv) ==
    CASE rv.kind = "struct" -> "form_test." \o st.name
      [] rv.kind = "ptr" /\ rv.elem = "struct" -> "*form_test." \o st.name
      [] rv.kind = "ptr" -> "*" \o rv.elem
      [] OTHER -> rv.kind

\* InvalidUnmarshalError.Error without the look at the kind of the type (a
\* variant the checks of C12 must tell apart)
InvalidUnmarshalError_ErrorNilOnly(e) ==
    IF e.Type.kind = "invalid"
       THEN "form: Unmarshal(nil)"
       ELSE "form: Unmarshal(nil " \o ArgumentTypeString(e.Type) \o ")"

\* func (e *InvalidUnmarshalError) Error() string
InvalidUnmarshalError_Error(e) ==
    IF e.Type.kind = "invalid"
       THEN "form: Unmarshal(nil)"
    ELSE IF e.Type.kind # "ptr"
       THEN "form: Unmarshal(non-pointer " \o ArgumentTypeString(e.Type) \o ")"
    ELSE "form: Unmarshal(nil " \o ArgumentTypeString(e.Type) \o ")"

\* func (e *InvalidMarshalError) Error() string
InvalidMarshalError_Error(e) ==
    IF e.Type.kind = "invalid"
       THEN "form: Marshal(nil)"
    ELSE IF e.Type.kind # "ptr"
       THEN "form: Marshal(non-pointer " \o ArgumentTypeString(e.Type) \o ")"
    ELSE "form: Marshal(nil " \o ArgumentTypeString(e.Type) \o ")"

NumField == Len(st.fields)

Init ==
    /\ \E r \in Records : st = r.st /\ s = r.s
    /\ RawQuery \in Queries
    /\ Form = NilForm
    /\ pc = "idle"
    /\ op = "none"
    /\ i = 0
    /\ form = EmptyValues
    /\ err = Nil
    /\ pre = [i |-> Pointer, s |-> s, RawQuery |-> RawQuery, Form |-> Form]
    /\ sent = NotSent
    /\ kept = NotKept
    /\ other = NoOther

(***************************************************************************)
(* Unmarshal.                                                              *)
(***************************************************************************)
\* r.ParseForm() for a request without a body: the query is parsed once,
\* r.Form is set even when the parse reports an error
ParseForm ==
    IF Form.nil
       THEN LET p == ParseQuery(RawQuery) IN
            [Form |-> [nil |-> FALSE, m |-> p.m], e |-> p.e]
       ELSE [Form |-> Form, e |-> ""]

\* UnmarshalCall going on to the loop whatever r.ParseForm() returns (a
\* variant the checks of C13 must tell apart)
UnmarshalCallIgnoringParseForm ==
    /\ pc \in {"idle", "done"}
    /\ \E rv \in Arguments :
          /\ pre' = [i |-> rv, s |-> s, RawQuery |-> RawQuery, Form |-> Form]
          /\ IF InvalidArgument(rv)
                THEN /\ err' = InvalidUnmarshalError(rv)
                     /\ pc' = "done"
                     /\ i' = 0
                     /\ Form' = Form
                ELSE /\ err' = Nil
                     /\ pc' = "unmarshal"
                     /\ i' = 1
                     /\ Form' = ParseForm.Form
    /\ op' = "Unmarshal"
    /\ form' = EmptyValues
    /\ UNCHANGED <<st, sent, kept, other, s, RawQuery>>

\* Unmarshal up to its loop
UnmarshalCall ==
    /\ pc \in {"idle", "done"}
    /\ \E rv \in Arguments :
          /\ pre' = [i |-> rv, s |-> s, RawQuery |-> RawQuery, Form |-> Form]
          /\ LET p == ParseForm IN
             IF InvalidArgument(rv)
                THEN /\ err' = InvalidUnmarshalError(rv)
                     /\ pc' = "done"
                     /\ i' = 0
                     /\ Form' = Form
             ELSE IF p.e # ""
                THEN /\ err' = [kind |-> "error", msg |-> p.e]
                     /\ pc' = "done"
                     /\ i' = 0
                     /\ Form' = p.Form
                ELSE /\ err' = Nil
                     /\ pc' = "unmarshal"
                     /\ i' = 1
                     /\ Form' = p.Form
    /\ op' = "Unmarshal"
    /\ form' = EmptyValues
    /\ UNCHANGED <<st, sent, kept, other, s, RawQuery>>

\* UnmarshalField undoing the earlier fields when a field fails (a variant
\* the checks of C7 must tell apart)
UnmarshalFieldRollingBack ==
    /\ pc = "unmarshal"
    /\ i <= NumField
    /\ LET f == st.fields[i]
           r == parseFormValues(Field(st, s, i), Get(Form.m, f.tag))
       IN  IF r.err # Nil
              THEN /\ s' = pre.s
                   /\ err' = [r.err EXCEPT !.Struct = st.name, !.Field = f.name]
                   /\ pc' = "done"
                   /\ i' = i
              ELSE /\ s' = [s EXCEPT ![i] = r.v]
                   /\ err' = err
                   /\ pc' = pc
                   /\ i' = i + 1
    /\ UNCHANGED <<st, sent, kept, other, RawQuery, Form, op, form, pre>>

\* one turn of the loop over the fields
UnmarshalField ==
    /\ pc = "unmarshal"
    /\ i <= NumField
    /\ LET f == st.fields[i]
           tag == f.tag
           values == Get(Form.m, tag)
           r == parseFormValues(Field(st, s, i), values)
       IN  /\ s' = [s EXCEPT ![i] = r.v]
           /\ IF r.err # Nil
                 THEN /\ err' = [r.err EXCEPT !.Struct = st.name, !.Field = f.name]
                      /\ pc' = "done"
                      /\ i' = i
                 ELSE /\ err' = err
                      /\ pc' = pc
                      /\ i' = i + 1
    /\ UNCHANGED <<st, sent, kept, other, RawQuery, Form, op, form, pre>>

\* "return nil" after the loop
UnmarshalReturn ==
    /\ pc = "unmarshal"
    /\ i > NumField
    /\ pc' = "done"
    /\ err' = Nil
    /\ UNCHANGED <<st, sent, kept, other, s, RawQuery, Form, op, i, form, pre>>

(***************************************************************************)
(* Marshal.                                                                *)
(***************************************************************************)
\* Marshal up to its loop: form := make(url.Values)
MarshalCall ==
    /\ pc \in {"idle", "done"}
    /\ \E rv \in Arguments :
          /\ pre' = [i |-> rv, s |-> s, RawQuery |-> RawQuery, Form |-> Form]
          /\ IF InvalidArgument(rv)
                THEN /\ err' = InvalidMarshalError(rv)
                     /\ pc' = "done"
                     /\ i' = 0
                ELSE /\ err' = Nil
                     /\ pc' = "marshal"
                     /\ i' = 1
    /\ op' = "Marshal"
    /\ form' = EmptyValues
    /\ UNCHANGED <<st, sent, kept, other, s, RawQuery, Form>>

\* MarshalField appending to the mapping of the other goroutine's Marshal
\* while that runs, as if form were a package-level variable (a variant the
\* checks of C17 must tell apart)
MarshalFieldSharedForm ==
    /\ pc = "marshal"
    /\ i <= NumField
    /\ LET f == st.fields[i]
           shared == IF other.pc = "marshal" THEN other.form ELSE form
           r == marshalFormValues(f.tag, Field(st, s, i), shared)
       IN  IF f.tag = ""
              THEN /\ i' = i + 1
                   /\ UNCHANGED <<form, err, pc>>
           ELSE /\ form' = r.form
                /\ IF r.err # Nil
                      THEN /\ err' = [r.err EXCEPT !.Struct = st.name, !.Field = f.name]
                           /\ pc' = "done"
                           /\ i' = i
                      ELSE /\ i' = i + 1
                           /\ UNCHANGED <<err, pc>>
    /\ UNCHANGED <<st, sent, kept, other, s, RawQuery, Form, op, pre>>

\* MarshalField without "err.Field = f.Name" (a variant the checks of C19
\* must tell apart)
MarshalFieldUnnamed ==
    /\ pc = "marshal"
    /\ i <= NumField
    /\ LET f == st.fields[i]
           r == marshalFormValues(f.tag, Field(st, s, i), form)
       IN  IF f.tag = ""
              THEN /\ i' = i + 1
                   /\ UNCHANGED <<form, err, pc>>
           ELSE /\ form' = r.form
                /\ IF r.err.kind = "MarshalTypeError"
                      THEN /\ err' = [r.err EXCEPT !.Struct = st.name]
                           /\ pc' = "done"
                           /\ i' = i
                   ELSE IF r.err # Nil
                      THEN /\ err' = r.err
                           /\ pc' = "done"
                           /\ i' = i
                      ELSE /\ i' = i + 1
                           /\ UNCHANGED <<err, pc>>
    /\ UNCHANGED <<st, sent, kept, other, s, RawQuery, Form, op, pre>>

\* MarshalField writing the query after every field (a variant the checks
\* of C10 must tell apart)
MarshalFieldPublishing ==
    /\ pc = "marshal"
    /\ i <= NumField
    /\ LET f == st.fields[i]
           r == marshalFormValues(f.tag, Field(st, s, i), form)
       IN  IF f.tag = ""
              THEN /\ i' = i + 1
                   /\ UNCHANGED <<form, err, pc, RawQuery>>
           ELSE /\ form' = r.form
                /\ RawQuery' = Encode(r.form)
                /\ IF r.err # Nil
                      THEN /\ err' = [r.err EXCEPT !.Struct = st.name, !.Field = f.name]
                           /\ pc' = "done"
                           /\ i' = i
                      ELSE /\ i' = i + 1
                           /\ UNCHANGED <<err, pc>>
    /\ UNCHANGED <<st, sent, kept, other, s, Form, op, pre>>

\* one turn of the loop over the fields
MarshalField ==
    /\ pc = "marshal"
    /\ i <= NumField
    /\ LET f == st.fields[i]
           tag == f.tag
           r == marshalFormValues(tag, Field(st, s, i), form)
       IN  IF tag = ""
              THEN /\ i' = i + 1
                   /\ UNCHANGED <<form, err, pc>>
           ELSE IF r.err.kind = "MarshalTypeError"
              THEN /\ form' = r.form
                   /\ err' = [r.err EXCEPT !.Struct = st.name, !.Field = f.name]
                   /\ pc' = "done"
                   /\ i' = i
           ELSE IF r.err # Nil
              THEN /\ form' = r.form
                   /\ err' = r.err
                   /\ pc' = "done"
                   /\ i' = i
           ELSE /\ form' = r.form
                /\ i' = i + 1
                /\ UNCHANGED <<err, pc>>
    /\ UNCHANGED <<st, sent, kept, other, s, RawQuery, Form, op, pre>>

\* r.URL.RawQuery = form.Encode(); return nil
MarshalReturn ==
    /\ pc = "marshal"
    /\ i > NumField
    /\ RawQuery' = Encode(form)
    /\ pc' = "done"
    /\ err' = Nil
    /\ UNCHANGED <<st, sent, kept, other, s, Form, op, i, form, pre>>

Next ==
    \/ UnmarshalCall
    \/ UnmarshalField
    \/ UnmarshalReturn
    \/ MarshalCall
    \/ MarshalField
    \/ MarshalReturn

Spec == Init /\ [][Next]_vars

(***************************************************************************)
(* The second specification: the struct of the tests' testUnmarshalFormError,*)
(* one field Val of a scalar kind tagged "a", and a request whose query    *)
(* holds one value for it.                                                 *)
(***************************************************************************)
ScalarKinds == IntKinds \cup UintKinds \cup {"bool", "string"}

NumberLiterals ==
    {"0", "1", "-1", "+5", "007", "-0", "127", "128", "-128", "-129",
     "255", "256", "257", "32767", "32768", "-32768", "-32769", "65535", "65536",
     "2147483647", "2147483648", "-2147483648", "-2147483649",
     "4294967295", "4294967296",
     "9223372036854775807", "9223372036854775808",
     "-9223372036854775808", "-9223372036854775809",
     "18446744073709551615", "18446744073709551616",
     "", "-", "notAInt", "1x", "99999999999999999999x", "true"}

InitParse ==
    /\ \E k \in ScalarKinds :
          /\ st = [name |-> "s", fields |-> <<Fld("Val", "a", Scalar(k), TRUE)>>]
          /\ s = <<CASE k = "string" -> "a0" [] k = "bool" -> FALSE [] OTHER -> Seven>>
    /\ \E lit \in NumberLiterals : RawQuery = Encode(Add(EmptyValues, "a", lit))
    /\ Form = NilForm
    /\ pc = "idle"
    /\ op = "none"
    /\ i = 0
    /\ form = EmptyValues
    /\ err = Nil
    /\ pre = [i |-> Pointer, s |-> s, RawQuery |-> RawQuery, Form |-> Form]
    /\ sent = NotSent
    /\ kept = NotKept
    /\ other = NoOther

SpecParse == InitParse /\ [][Next]_vars

(***************************************************************************)
(* The third specification: the way of the tests' testUnmarshalFormData.   *)
(* A struct of supported kinds is marshalled, the request is sent on       *)
(* (http.DefaultClient.Do), and the handler unmarshals the query of the    *)
(* request it receives into a new struct ("var actual").                   *)
(***************************************************************************)
\* the struct types sent, with the values of their fields
Sendable ==
    { [st |-> [name |-> "UrlFormData", fields |->
                <<Fld("Single", "a", Scalar("int8"), TRUE),
                  Fld("Slice", "b", SliceOf("int8"), TRUE),
                  Fld("Array", "c", ArrayOf(2, "int8"), TRUE)>>],
       s |-> <<IntVal(TRUE, "128"), <<IntVal(FALSE, "127"), IntVal(FALSE, "0")>>,
               <<IntVal(FALSE, "1"), IntVal(TRUE, "1")>>>>],
      [st |-> [name |-> "person", fields |->
                <<Fld("Name", "pets", Scalar("string"), TRUE),
                  Fld("Flags", "name", SliceOf("bool"), TRUE),
                  Fld("Age", "age", Scalar("uint64"), TRUE),
                  Fld("Min", "a b", Scalar("int64"), TRUE)>>],
       s |-> <<"a b&c=d%+e;", <<TRUE, FALSE>>, IntVal(FALSE, MaxUint64),
               IntVal(TRUE, Cutoff63)>>],
      [st |-> [name |-> "empties", fields |->
                <<Fld("S", "b", SliceOf("string"), TRUE),
                  Fld("E", "a", Scalar("string"), TRUE),
                  Fld("O", "c", SliceOf("string"), TRUE)>>],
       s |-> <<<<>>, "", <<"">>>>],
      [st |-> [name |-> "shared", fields |->
                <<Fld("X", "a", Scalar("string"), TRUE),
                  Fld("Y", "a", SliceOf("string"), TRUE)>>],
       s |-> <<"x0", <<"y0", "y1">>>>],
      [st |-> [name |-> "s", fields |->
                <<Fld("A", "a", Scalar("string"), TRUE),
                  Fld("B", "", Scalar("string"), TRUE)>>],
       s |-> <<"a0", "b0">>],
      [st |-> [name |-> "hidden", fields |->
                <<Fld("z", "a", Scalar("int8"), FALSE),
                  Fld("A", "b", Scalar("string"), TRUE)>>],
       s |-> <<Seven, "a0">>],
      [st |-> [name |-> "untagged", fields |->
                <<Fld("A", "", Scalar("string"), TRUE),
                  Fld("N", "", SliceOf("int8"), TRUE)>>],
       s |-> <<"", <<>>>>] }

\* "var actual T": the zero value of the struct type
ZeroStruct == [k \in 1..Len(st.fields) |-> Zero(st.fields[k].type)]

InitRoundTrip ==
    /\ \E r \in Sendable : st = r.st /\ s = r.s
    /\ RawQuery \in {"", "a=1&b=1"}
    /\ Form = NilForm
    /\ pc = "idle"
    /\ op = "none"
    /\ i = 0
    /\ form = EmptyValues
    /\ err = Nil
    /\ pre = [i |-> Pointer, s |-> s, RawQuery |-> RawQuery, Form |-> Form]
    /\ sent = NotSent
    /\ kept = NotKept
    /\ other = NoOther

\* the request that Marshal has written is sent on: the handler receives a
\* request with the same query, not parsed yet, and declares a new struct
Do ==
    /\ pc = "done" /\ op = "Marshal" /\ err = Nil
    /\ sent' = [ok |-> TRUE, s |-> s, RawQuery |-> RawQuery]
    /\ s' = ZeroStruct
    /\ Form' = NilForm
    /\ pc' = "idle"
    /\ op' = "none"
    /\ UNCHANGED <<st, kept, other, RawQuery, i, form, err, pre>>

NextRoundTrip ==
    \/ Next
    \/ Do

SpecRoundTrip == InitRoundTrip /\ [][NextRoundTrip]_vars

(***************************************************************************)
(* The fourth specification: two goroutines, each calling Unmarshal and    *)
(* Marshal with a request and a struct of its own.  The package has no     *)
(* package-level variable; all a call touches is its arguments and its     *)
(* local variables.  The first goroutine runs the actions above; the       *)
(* second runs the same steps on the record other.                         *)
(***************************************************************************)
\* a goroutine's state before any call
Goroutine(typ, vals, query) ==
    [st |-> typ, s |-> vals, RawQuery |-> query, Form |-> NilForm,
     pc |-> "idle", op |-> "none", i |-> 0, form |-> EmptyValues, err |-> Nil,
     pre |-> [i |-> Pointer, s |-> vals, RawQuery |-> query, Form |-> NilForm]]

\* Unmarshal or Marshal up to its loop, called by goroutine c with argument rv
Called(c, fn, rv) ==
    LET p == IF c.Form.nil
                THEN LET q == ParseQuery(c.RawQuery) IN
                     [Form |-> [nil |-> FALSE, m |-> q.m], e |-> q.e]
                ELSE [Form |-> c.Form, e |-> ""]
        entered == [c EXCEPT !.op = fn, !.form = EmptyValues,
                             !.pre = [i |-> rv, s |-> c.s, RawQuery |-> c.RawQuery,
                                      Form |-> c.Form]]
    IN  IF InvalidArgument(rv)
           THEN [entered EXCEPT !.pc = "done", !.i = 0,
                                !.err = IF fn = "Unmarshal"
                                           THEN InvalidUnmarshalError(rv)
                                           ELSE InvalidMarshalError(rv)]
        ELSE IF fn = "Marshal"
           THEN [entered EXCEPT !.pc = "marshal", !.i = 1, !.err = Nil]
        ELSE IF p.e # ""
           THEN [entered EXCEPT !.pc = "done", !.i = 0, !.Form = p.Form,
                                !.err = [kind |-> "error", msg |-> p.e]]
        ELSE [entered EXCEPT !.pc = "unmarshal", !.i = 1, !.Form = p.Form,
                             !.err = Nil]

\* the next step of the call that goroutine c is in: one turn of the loop of
\* Unmarshal or of Marshal, or what follows the loop
Stepped(c) ==
    LET f == c.st.fields[c.i]
        named(e) == [e EXCEPT !.Struct = c.st.name, !.Field = f.name]
    IN
    IF c.pc = "unmarshal"
       THEN IF c.i > Len(c.st.fields)
               THEN [c EXCEPT !.pc = "done", !.err = Nil]
               ELSE LET r == parseFormValues(Field(c.st, c.s, c.i), Get(c.Form.m, f.tag)) IN
                    IF r.err # Nil
                       THEN [c EXCEPT !.pc = "done", !.err = named(r.err)]
                       ELSE [c EXCEPT !.s[c.i] = r.v, !.i = c.i + 1]
    ELSE IF c.i > Len(c.st.fields)
       THEN [c EXCEPT !.pc = "done", !.err = Nil, !.RawQuery = Encode(c.form)]
    ELSE IF f.tag = "" THEN [c EXCEPT !.i = c.i + 1]
    ELSE LET r == marshalFormValues(f.tag, Field(c.st, c.s, c.i), c.form) IN
         IF r.err.kind = "MarshalTypeError"
            THEN [c EXCEPT !.pc = "done", !.form = r.form, !.err = named(r.err)]
         ELSE IF r.err # Nil
            THEN [c EXCEPT !.pc = "done", !.form = r.form, !.err = r.err]
         ELSE [c EXCEPT !.form = r.form, !.i = c.i + 1]

\* the structs and queries of the two goroutines
Concurrent ==
    { [st |-> [name |-> "UrlFormData", fields |->
                <<Fld("Single", "a", Scalar("int8"), TRUE),
                  Fld("Slice", "b", SliceOf("int8"), TRUE)>>],
       s |-> <<Seven, <<Seven>>>>],
      [st |-> [name |-> "withMap", fields |->
                <<Fld("A", "b", Scalar("string"), TRUE),
                  Fld("M", "a", Scalar("map"), TRUE)>>],
       s |-> <<"a0", AMap>>] }

ConcurrentQueries == {"", "a=1&b=1", "b=300&b=1"}

InitConcurrent ==
    /\ \E r \in Concurrent : st = r.st /\ s = r.s
    /\ RawQuery \in ConcurrentQueries
    /\ Form = NilForm
    /\ pc = "idle"
    /\ op = "none"
    /\ i = 0
    /\ form = EmptyValues
    /\ err = Nil
    /\ pre = [i |-> Pointer, s |-> s, RawQuery |-> RawQuery, Form |-> Form]
    /\ sent = NotSent
    /\ kept = NotKept
    /\ \E r \in Concurrent, query \in ConcurrentQueries :
          other = Goroutine(r.st, r.s, query)

\* the second goroutine calls Unmarshal or Marshal
OtherCall ==
    /\ other.pc \in {"idle", "done"}
    /\ \E fn \in {"Unmarshal", "Marshal"}, rv \in Arguments :
          other' = Called(other, fn, rv)
    /\ UNCHANGED <<st, s, RawQuery, Form, pc, op, i, form, err, pre, sent, kept>>

\* the second goroutine's call takes its next step
OtherStep ==
    /\ other.pc \in {"unmarshal", "marshal"}
    /\ other' = Stepped(other)
    /\ UNCHANGED <<st, s, RawQuery, Form, pc, op, i, form, err, pre, sent, kept>>

NextConcurrent ==
    \/ Next
    \/ OtherCall
    \/ OtherStep

SpecConcurrent == InitConcurrent /\ [][NextConcurrent]_vars

(***************************************************************************)
(* Unmarshal called again: the caller looks at what a call returned and    *)
(* calls with the same request once more.                                  *)
(***************************************************************************)
\* the caller keeps the argument, the returned error and the struct and the
\* request as the call left them
Again ==
    /\ pc = "done" /\ op = "Unmarshal"
    /\ ~kept.ok
    /\ kept' = [ok |-> TRUE, i |-> pre.i, err |-> err, s |-> s,
                RawQuery |-> RawQuery, Form |-> Form]
    /\ pc' = "idle"
    /\ UNCHANGED <<st, s, RawQuery, Form, op, i, form, err, pre, sent, other>>

\* the queries of the requests that are unmarshalled twice: none, one value
\* for each key, two for a scalar, for a slice and for an array, a value
\* that fails after one that converts, an overflow, the empty key, and
\* queries url.ParseQuery reports an error for
TwiceQueries ==
    {"", "a=1&b=1", "a=1&a=1", "a=1&b=1&b=1", "b=1&b=x", "a=300&b=1",
     "a=1&c=1&c=1", "a=1&c=1&c=x", "=1&b=1"} \cup Malformed

InitTwice ==
    /\ \E r \in Records : st = r.st /\ s = r.s
    /\ RawQuery \in TwiceQueries
    /\ Form = NilForm
    /\ pc = "idle"
    /\ op = "none"
    /\ i = 0
    /\ form = EmptyValues
    /\ err = Nil
    /\ pre = [i |-> Pointer, s |-> s, RawQuery |-> RawQuery, Form |-> Form]
    /\ sent = NotSent
    /\ kept = NotKept
    /\ other = NoOther

NextTwice ==
    \/ Next
    \/ Again

SpecTwice == InitTwice /\ [][NextTwice]_vars

(***************************************************************************)
(* What the claims read from a state.  The expected conversions are        *)
(* written out for the literals of Spec, apart from the model's parsers.   *)
(***************************************************************************)
\* the Unmarshal call has returned
Unmarshalled == pc = "done" /\ op = "Unmarshal"

\* the Marshal call has returned (or panicked)
Marshalled == pc = "done" /\ op = "Marshal"

Fields == 1..Len(st.fields)

Tagged(k) == st.fields[k].tag # ""

Writable(k) == st.fields[k].exported

IsSequence(k) == st.fields[k].type.kind \in {"slice", "array"}

\* the values the mapping supplies for field k's tag
Supplied(k) == Get(Form.m, st.fields[k].tag)

\* the finished Unmarshal call reached field k in its loop
Reached(k) == Unmarshalled /\ err.kind # "error" /\ k <= i

\* the finished Unmarshal call returned the error of field k
FailedAt(k) == Unmarshalled /\ err.kind = "UnmarshalTypeError" /\ i = k

\* a literal converts to a kind of Spec's records: every string; "1", "true"
\* and "false" as bool; "1" and "7" as int8 ("7", "true" and "false" reach
\* a request through Marshal)
Convertible(kind, lit) ==
    \/ kind = "string"
    \/ kind = "bool" /\ lit \in {"1", "true", "false"}
    \/ kind = "int8" /\ lit \in {"1", "7"}

Converted(kind, lit) ==
    CASE kind = "string" -> lit
      [] kind = "bool" -> lit # "false"
      [] OTHER -> [neg |-> FALSE, mag |-> lit]

ConvertedAll(type, values) ==
    IF type.kind \in {"slice", "array"}
       THEN [p \in 1..Len(values) |-> Converted(type.elem, values[p])]
       ELSE Converted(type.kind, values[1])

(***************************************************************************)
(* C1: a field without a tag is invisible in both directions: Unmarshal    *)
(* never writes to it, whatever keys the mapping holds (the empty key      *)
(* included), and Marshal never emits an entry for it.                     *)
(* The code looks up r.Form[""] for an untagged field and writes what it   *)
(* finds: TLC finds this violated.                                         *)
(***************************************************************************)
C1_UntaggedInvisible ==
    /\ op = "Unmarshal" => \A k \in Fields : ~Tagged(k) => s[k] = pre.s[k]
    /\ op = "Marshal" => "" \notin DOMAIN form

(***************************************************************************)
(* C2: the arity rule of a tagged, writable scalar field in Unmarshal: no  *)
(* value leaves the field as it was and is no error; one value is          *)
(* converted and assigned; two or more fail with the cause "cannot         *)
(* unmarshal more than one value for non-slice field" and the bracketed,   *)
(* comma-space-joined list of the values as Value.                         *)
(***************************************************************************)
ArityRule(k) ==
    LET values == Supplied(k)
        kind == st.fields[k].type.kind
    IN  /\ Len(values) = 0 => s[k] = pre.s[k] /\ ~FailedAt(k)
        /\ Len(values) = 1 /\ Convertible(kind, values[1]) =>
              s[k] = Converted(kind, values[1]) /\ ~FailedAt(k)
        /\ Len(values) >= 2 =>
              /\ FailedAt(k)
              /\ err.Err = "cannot unmarshal more than one value for non-slice field"
              /\ err.Value = "[" \o Join(values, ", ") \o "]"
              /\ s[k] = pre.s[k]

C2_ScalarArity ==
    \A k \in Fields :
        Reached(k) /\ Tagged(k) /\ ~IsSequence(k) /\ Writable(k) => ArityRule(k)

\* C2 as stated, for every tagged scalar field: an unexported one is skipped
C2_ScalarArityAnyField ==
    \A k \in Fields :
        Reached(k) /\ Tagged(k) /\ ~IsSequence(k) => ArityRule(k)

\* one value was assigned to a scalar field and a later scalar field with
\* two values failed
C2_Witness ==
    \E j, k \in Fields :
        /\ j < k
        /\ Tagged(j) /\ ~IsSequence(j) /\ Writable(j)
        /\ Tagged(k) /\ ~IsSequence(k) /\ Writable(k)
        /\ Len(Supplied(j)) = 1 /\ s[j] # pre.s[j]
        /\ Len(Supplied(k)) >= 2 /\ FailedAt(k)

(***************************************************************************)
(* C3: a tagged, writable array field of declared size M with N >= 1       *)
(* values: Unmarshal sets it only if N = M, and then position p holds the  *)
(* conversion of the p-th value; if N # M it fails with the cause "cannot  *)
(* use [N]<elem> as [M]<elem> value in struct" and the field is as before. *)
(***************************************************************************)
ArrayRule(k) ==
    LET values == Supplied(k)
        type == st.fields[k].type
        N == Len(values)
        M == type.len
    IN  N >= 1 =>
        /\ ~FailedAt(k) =>
              /\ N = M
              /\ \A p \in 1..M : s[k][p] = Converted(type.elem, values[p])
        /\ N # M =>
              /\ FailedAt(k)
              /\ err.Err = "cannot use [" \o ToString(N) \o "]" \o type.elem
                             \o " as [" \o ToString(M) \o "]" \o type.elem
                             \o " value in struct"
              /\ s[k] = pre.s[k]

C3_ArraySize ==
    \A k \in Fields :
        Reached(k) /\ Tagged(k) /\ st.fields[k].type.kind = "array" /\ Writable(k)
            => ArrayRule(k)

\* C3 as stated, for every tagged array field: an unexported one is skipped
C3_ArraySizeAnyField ==
    \A k \in Fields :
        Reached(k) /\ Tagged(k) /\ st.fields[k].type.kind = "array" => ArrayRule(k)

\* an array field of size 2 failed on three values
C3_Witness ==
    \E k \in Fields :
        /\ Tagged(k) /\ st.fields[k].type.kind = "array" /\ Writable(k)
        /\ Len(Supplied(k)) = 3
        /\ FailedAt(k)

(***************************************************************************)
(* The decimal literals of SpecParse in ascending order of their value     *)
(* (equal values next to each other), written out apart from the model's   *)
(* parsers: the claims about ranges compare positions in this list.        *)
(***************************************************************************)
Ascending ==
    <<"-9223372036854775809", "-9223372036854775808", "-2147483649", "-2147483648",
      "-32769", "-32768", "-129", "-128", "-1", "-0", "0", "1", "+5", "007", "7",
      "127", "128", "255", "256", "257", "32767", "32768", "65535", "65536",
      "2147483647", "2147483648", "4294967295", "4294967296",
      "9223372036854775807", "9223372036854775808",
      "18446744073709551615", "18446744073709551616">>

\* lit is a base-10 integer literal: an optional sign and digits
IsDecimal(lit) == \E k \in 1..Len(Ascending) : Ascending[k] = lit

Rank(lit) == CHOOSE k \in 1..Len(Ascending) : Ascending[k] = lit

\* lo <= lit <= hi as numbers
Between(lit, lo, hi) == Rank(lo) <= Rank(lit) /\ Rank(lit) <= Rank(hi)

HasMinus(lit) == lit \in {"-"} \cup {Ascending[k] : k \in 1..Rank("-0")}

\* the number a decimal literal denotes
NumberOf(lit) ==
    CASE lit \in {"-0", "0"} -> [neg |-> FALSE, mag |-> "0"]
      [] lit = "+5" -> [neg |-> FALSE, mag |-> "5"]
      [] lit = "007" -> [neg |-> FALSE, mag |-> "7"]
      [] HasMinus(lit) -> [neg |-> TRUE, mag |-> Tail(lit)]
      [] OTHER -> [neg |-> FALSE, mag |-> lit]

\* the least and the greatest number of a signed kind
Lowest(kind) ==
    CASE kind = "int8" -> "-128"
      [] kind = "int16" -> "-32768"
      [] kind = "int32" -> "-2147483648"
      [] OTHER -> "-9223372036854775808"

Highest(kind) ==
    CASE kind = "int8" -> "127"
      [] kind = "int16" -> "32767"
      [] kind = "int32" -> "2147483647"
      [] OTHER -> "9223372036854775807"

\* field k is a tagged, writable scalar field of the kind and the finished
\* Unmarshal call decoded exactly one value for it
Decoded(k, kinds) ==
    /\ Reached(k) /\ Tagged(k) /\ Writable(k)
    /\ st.fields[k].type.kind \in kinds
    /\ Len(Supplied(k)) = 1

SyntaxCause(fn, lit) == "strconv." \o fn \o ": parsing \"" \o lit \o "\": invalid syntax"

RangeCause(fn, lit) == "strconv." \o fn \o ": parsing \"" \o lit \o "\": value out of range"

(***************************************************************************)
(* C4: the overflow boundary of a uint8 field: a literal of digits in      *)
(* 0..255 is assigned as that number; one above 255 and within 64 bits     *)
(* fails with the cause "<raw> overflows uint8 value"; one beyond 64 bits  *)
(* fails with strconv's "value out of range"; one with a leading minus     *)
(* fails with strconv's "invalid syntax".  A failure leaves the field as   *)
(* it was.                                                                 *)
(***************************************************************************)
Uint8Rule(k, lit, beyond) ==
    /\ IsDecimal(lit) /\ Between(lit, "0", "255") /\ lit # "+5" =>
          ~FailedAt(k) /\ s[k] = NumberOf(lit)
    /\ IsDecimal(lit) /\ Between(lit, "256", beyond) =>
          /\ FailedAt(k)
          /\ err.Err = lit \o " overflows uint8 value"
          /\ s[k] = pre.s[k]
    /\ HasMinus(lit) =>
          /\ FailedAt(k)
          /\ err.Err = SyntaxCause("ParseUint", lit)
          /\ s[k] = pre.s[k]

SizedIntKinds == {"int8", "int16", "int32", "int64"}

SignedRule(k, lit, lo64, hi64) ==
    LET kind == st.fields[k].type.kind IN
    /\ Between(lit, lo64, hi64) /\ ~Between(lit, Lowest(kind), Highest(kind)) =>
          /\ FailedAt(k)
          /\ err.Err = lit \o " overflows " \o kind \o " value"
    /\ FailedAt(k) =>
          /\ err.Err # SyntaxCause("ParseInt", lit)
          /\ Between(lit, lo64, hi64) => err.Err # RangeCause("ParseInt", lit)

C5_SignedOverflow ==
    \A k \in Fields : Decoded(k, SizedIntKinds) =>
        LET lit == Supplied(k)[1] IN
        IsDecimal(lit) =>
            /\ SignedRule(k, lit, "-9223372036854775808", "9223372036854775807")
            /\ ~Between(lit, "-9223372036854775808", "9223372036854775807") =>
                  FailedAt(k) /\ err.Err = RangeCause("ParseInt", lit)

\* C5 as stated: every value outside the field's range fails with the
\* overflow cause, and no base-10 literal gets a parse error
C5_SignedOverflowAnyLiteral ==
    \A k \in Fields : Decoded(k, SizedIntKinds) =>
        LET lit == Supplied(k)[1] IN
        IsDecimal(lit) =>
            SignedRule(k, lit, "-9223372036854775809", "18446744073709551616")

\* an int16 field was offered "32768" and the call failed on it
C5_Witness ==
    \E k \in Fields :
        /\ Decoded(k, {"int16"})
        /\ Supplied(k)[1] = "32768"
        /\ FailedAt(k)

(***************************************************************************)
(* C6: when Unmarshal returns no error, every tagged, writable field whose *)
(* tag has at least one value holds exactly the conversion of those values *)
(* (a slice: a new sequence, as long as the values, in their order), and   *)
(* every field whose tag has no value holds what it held before the call.  *)
(***************************************************************************)
C6_SuccessPostcondition ==
    Unmarshalled /\ err = Nil =>
        \A k \in Fields :
            /\ Tagged(k) /\ Writable(k) /\ Len(Supplied(k)) >= 1 =>
                  s[k] = ConvertedAll(st.fields[k].type, Supplied(k))
            /\ Len(Supplied(k)) = 0 => s[k] = pre.s[k]

\* a successful call replaced a slice by a longer one and left a field
\* without values at its non-zero value
C6_Witness ==
    /\ Unmarshalled /\ err = Nil
    /\ \E j, k \in Fields :
          /\ Tagged(j) /\ st.fields[j].type.kind = "slice"
          /\ Len(s[j]) > Len(pre.s[j]) /\ Len(pre.s[j]) > 0
          /\ Tagged(k) /\ Len(Supplied(k)) = 0
          /\ s[k] # Zero(st.fields[k].type)

(***************************************************************************)
(* C7: Unmarshal is fail-fast without rollback: the fields are processed   *)
(* in declared order; the error returned is that of the first field whose  *)
(* conversion fails and names it and the struct; every field before it     *)
(* that had values keeps its new value; no field after it is modified.     *)
(***************************************************************************)
\* the conversion of field k's values fails
WouldFail(k) ==
    LET values == Supplied(k)
        type == st.fields[k].type
    IN  /\ Writable(k)
        /\ Len(values) >= 1
        /\ IF type.kind \in {"slice", "array"}
              THEN \/ type.kind = "array" /\ Len(values) # type.len
                   \/ \E p \in 1..Len(values) : ~Convertible(type.elem, values[p])
              ELSE \/ Len(values) >= 2
                   \/ ~Convertible(type.kind, values[1])

C7_FailFast ==
    Unmarshalled /\ err.kind \notin {"error", "InvalidUnmarshalError"} =>
        LET failing == {k \in Fields : WouldFail(k)} IN
        IF failing = {} THEN err = Nil
        ELSE LET k == CHOOSE x \in failing : \A y \in failing : x <= y IN
             /\ FailedAt(k)
             /\ err.Field = st.fields[k].name
             /\ err.Struct = st.name
             /\ \A j \in 1..(k - 1) :
                   Writable(j) /\ Len(Supplied(j)) >= 1 =>
                       s[j] = ConvertedAll(st.fields[j].type, Supplied(j))
             /\ \A j \in (k + 1)..Len(st.fields) : s[j] = pre.s[j]

\* the second of three fields failed: the first holds its new value, the
\* third had a value too and is as before
C7_Witness ==
    /\ FailedAt(2)
    /\ Len(st.fields) = 3
    /\ Len(Supplied(1)) >= 1 /\ s[1] # pre.s[1]
    /\ Len(Supplied(3)) >= 1 /\ Writable(3) /\ s[3] = pre.s[3]

(***************************************************************************)
(* C8: on success Marshal's mapping holds, for each key, exactly the       *)
(* formatted values of the fields declared with that tag, in declared      *)
(* field order and within a sequence in element order: one value for a     *)
(* scalar, n for a sequence of length n (none when n = 0); fields sharing  *)
(* a tag accumulate under the key in field order.                          *)
(***************************************************************************)
\* the kinds of the model that the package formats and parses
SupportedKinds == {"string", "bool"} \cup IntKinds \cup UintKinds

\* the text of a value of a supported kind (no text stands for any other)
Text(kind, v) ==
    CASE kind = "string" -> v
      [] kind = "bool" -> IF v THEN "true" ELSE "false"
      [] kind \in IntKinds \cup UintKinds -> IF v.neg THEN "-" \o v.mag ELSE v.mag
      [] OTHER -> "<unsupported>"

\* what field k contributes
Contribution(k) ==
    LET type == st.fields[k].type IN
    IF type.kind \in {"slice", "array"}
       THEN [p \in 1..Len(s[k]) |-> Text(type.elem, s[k][p])]
       ELSE <<Text(type.kind, s[k])>>

\* what the fields 1..k contribute under a key
RECURSIVE Emitted(_, _)
Emitted(key, k) ==
    IF k = 0 THEN <<>>
    ELSE Emitted(key, k - 1)
         \o (IF st.fields[k].tag = key /\ key # "" THEN Contribution(k) ELSE <<>>)

C8_MarshalOutput ==
    Marshalled /\ err = Nil =>
        /\ \A key \in Keys \cup DOMAIN form :
              Get(form, key) = Emitted(key, Len(st.fields))
        /\ \A key \in DOMAIN form : Len(form[key]) >= 1

\* two fields sharing a tag, one of them a sequence of two elements, were
\* marshalled under one key
C8_Witness ==
    /\ Marshalled /\ err = Nil
    /\ \E j, k \in Fields :
          /\ j < k
          /\ Tagged(j) /\ st.fields[j].tag = st.fields[k].tag
          /\ IsSequence(k) /\ Len(s[k]) = 2
          /\ Len(Get(form, st.fields[j].tag)) = 3

(***************************************************************************)
(* C9: Marshal returns a MarshalTypeError whenever a tagged field has an   *)
(* unsupported kind, or is a sequence whose element kind is unsupported,   *)
(* whatever the field's value or length; it never returns success for a    *)
(* record that declares such a field.  (The calls meant are those given a  *)
(* pointer to the record; a call that panics returns nothing and is not    *)
(* counted.)                                                               *)
(* A sequence without elements is never looked into: TLC finds this        *)
(* violated.                                                               *)
(***************************************************************************)
DeclaresUnsupported ==
    \E k \in Fields :
        /\ Tagged(k)
        /\ IF IsSequence(k)
              THEN st.fields[k].type.elem \notin SupportedKinds
              ELSE st.fields[k].type.kind \notin SupportedKinds

C9_UnsupportedAlwaysFails ==
    Marshalled /\ err.kind \notin {"panic", "InvalidMarshalError"} /\ DeclaresUnsupported =>
        err.kind = "MarshalTypeError"

(***************************************************************************)
(* C10: when Marshal returns an error, nothing of the partly built mapping *)
(* is published: the request's query is what it was before the call, also  *)
(* when earlier fields had been formatted and appended.                    *)
(***************************************************************************)
C10_NoPartialQuery ==
    op = "Marshal" /\ (pc = "marshal" \/ err # Nil) => RawQuery = pre.RawQuery

\* Marshal failed after it had appended values that the query does not hold
C10_Witness ==
    /\ Marshalled
    /\ err.kind = "MarshalTypeError"
    /\ form # EmptyValues
    /\ Encode(form) # RawQuery

(***************************************************************************)
(* C11: Unmarshal returns an InvalidUnmarshalError, and Marshal an         *)
(* InvalidMarshalError, exactly when the argument is nil, is not a         *)
(* pointer, is a nil pointer or points to something that is not a struct;  *)
(* then no field is read or written (the struct, the query and the         *)
(* request's form are as before, the loop was not entered); for a non-nil  *)
(* pointer to a struct neither error is returned.                          *)
(***************************************************************************)
\* the four causes, one by one
BadArgument(a) ==
    \/ a.kind = "invalid"
    \/ a.kind \notin {"invalid", "ptr"}
    \/ a.kind = "ptr" /\ a.isNil
    \/ a.kind = "ptr" /\ ~a.isNil /\ a.elem # "struct"

C11_InvalidArgument ==
    /\ pc \in {"unmarshal", "marshal"} => ~BadArgument(pre.i)
    /\ pc = "done" =>
          /\ err.kind = "InvalidUnmarshalError" <=>
                op = "Unmarshal" /\ BadArgument(pre.i)
          /\ err.kind = "InvalidMarshalError" <=>
                op = "Marshal" /\ BadArgument(pre.i)
          /\ BadArgument(pre.i) =>
                /\ err.Type = pre.i
                /\ i = 0
                /\ s = pre.s /\ RawQuery = pre.RawQuery /\ Form = pre.Form

\* Unmarshal was given a pointer to an int while the request's query held a
\* value and had not been parsed: it is still not parsed
C11_Witness ==
    /\ pc = "done" /\ op = "Unmarshal"
    /\ err.kind = "InvalidUnmarshalError"
    /\ pre.i.kind = "ptr" /\ ~pre.i.isNil /\ pre.i.elem = "int"
    /\ RawQuery = "a=1" /\ Form.nil

(***************************************************************************)
(* C12: the message of an InvalidUnmarshalError / InvalidMarshalError has  *)
(* one of three forms: "(nil)" exactly for the nil argument,               *)
(* "(non-pointer T)" exactly for an argument that is not a pointer, and    *)
(* "(nil T)" exactly for an argument that is a pointer: a nil pointer, and *)
(* also a pointer that is not nil and points to something that is not a    *)
(* struct.                                                                 *)
(***************************************************************************)
HasPrefix(str, prefix) ==
    Len(str) >= Len(prefix) /\ SubSeq(str, 1, Len(prefix)) = prefix

\* the form of a message of the function fn
MessageForm(msg, fn) ==
    LET head == "form: " \o fn \o "(" IN
    CASE msg = head \o "nil)" -> "(nil)"
      [] HasPrefix(msg, head \o "non-pointer ") -> "(non-pointer T)"
      [] HasPrefix(msg, head \o "nil ") -> "(nil T)"
      [] OTHER -> "other"

\* the call returned an invalid-argument error
InvalidReturned ==
    pc = "done" /\ err.kind \in {"InvalidUnmarshalError", "InvalidMarshalError"}

\* the form of the message of the error returned
ReturnedForm ==
    IF err.kind = "InvalidUnmarshalError"
       THEN MessageForm(InvalidUnmarshalError_Error(err), "Unmarshal")
       ELSE MessageForm(InvalidMarshalError_Error(err), "Marshal")

C12_MessageForms ==
    InvalidReturned =>
        /\ ReturnedForm = "(nil)" <=> pre.i.kind = "invalid"
        /\ ReturnedForm = "(non-pointer T)" <=> pre.i.kind \notin {"invalid", "ptr"}
        /\ ReturnedForm = "(nil T)" <=> pre.i.kind = "ptr"

\* the statement as it was made: "(nil T)" exactly for a nil pointer,
\* "(non-pointer T)" exactly for what is not a pointer or not a struct;
\* TLC finds it violated for a pointer to an int
C12_MessageOneCause ==
    InvalidReturned =>
        /\ ReturnedForm = "(nil)" <=> pre.i.kind = "invalid"
        /\ ReturnedForm = "(non-pointer T)" <=>
              \/ pre.i.kind \notin {"invalid", "ptr"}
              \/ pre.i.kind = "ptr" /\ ~pre.i.isNil /\ pre.i.elem # "struct"
        /\ ReturnedForm = "(nil T)" <=> pre.i.kind = "ptr" /\ pre.i.isNil

\* Unmarshal returned "form: Unmarshal(nil *int)" for a pointer that is not nil
C12_Witness ==
    /\ InvalidReturned
    /\ pre.i.kind = "ptr" /\ ~pre.i.isNil
    /\ err.kind = "InvalidUnmarshalError"
    /\ InvalidUnmarshalError_Error(err) = "form: Unmarshal(nil *int)"

(***************************************************************************)
(* C13: when r.ParseForm() fails for a valid argument, Unmarshal returns   *)
(* that error as it is (not inside an UnmarshalTypeError) and no field of  *)
(* the struct is modified, also when the failed parse has put values into  *)
(* r.Form.                                                                 *)
(***************************************************************************)
\* what url.ParseQuery reports for the malformed queries
UpstreamError(query) ==
    CASE query = "a=%zz&b=1" -> "invalid URL escape \"%zz\""
      [] query = "a=1;b=1&c=1" -> "invalid semicolon separator in query"
      [] OTHER -> ""

\* the request had not been parsed and its query is malformed
ParseFails == pre.Form.nil /\ UpstreamError(pre.RawQuery) # ""

C13_ParseErrorPassThrough ==
    Unmarshalled /\ ~BadArgument(pre.i) =>
        /\ ParseFails <=> err.kind = "error"
        /\ ParseFails =>
              /\ err = [kind |-> "error", msg |-> UpstreamError(pre.RawQuery)]
              /\ s = pre.s

\* the parse failed after it had put a value into r.Form for the tag of a
\* writable field, which is as before
C13_Witness ==
    /\ Unmarshalled /\ err.kind = "error"
    /\ \E k \in Fields :
          /\ Tagged(k) /\ Writable(k)
          /\ Len(Supplied(k)) = 1
          /\ s[k] = pre.s[k] /\ s[k] # ConvertedAll(st.fields[k].type, Supplied(k))

(***************************************************************************)
(* C14: round trip.  For a struct whose fields are all exported, carry     *)
(* pairwise distinct non-empty tags and are of supported string, bool and  *)
(* integer kinds (scalars, arrays, slices), Marshal succeeds, and          *)
(* Unmarshal of the query it wrote, into a new zero struct of the type,    *)
(* succeeds and gives the fields the values they had (a slice without      *)
(* elements stays the zero slice).                                         *)
(***************************************************************************)
\* every field is of a supported kind
AllSupported ==
    \A k \in Fields :
        IF IsSequence(k) THEN st.fields[k].type.elem \in SupportedKinds
        ELSE st.fields[k].type.kind \in SupportedKinds

\* every field is exported and tagged, no two fields with the same tag
AllTaggedApart ==
    /\ \A k \in Fields : Tagged(k) /\ Writable(k)
    /\ \A j, k \in Fields : j # k => st.fields[j].tag # st.fields[k].tag

\* the Unmarshal call that has returned was given a pointer to a zero struct
\* and a request, not parsed before, with the query that was sent
RoundTripped ==
    /\ Unmarshalled /\ ~BadArgument(pre.i)
    /\ sent.ok /\ pre.RawQuery = sent.RawQuery
    /\ pre.Form.nil
    /\ pre.s = ZeroStruct

C14_RoundTrip ==
    AllSupported /\ AllTaggedApart =>
        /\ Marshalled /\ ~BadArgument(pre.i) => err = Nil
        /\ RoundTripped => err = Nil /\ s = sent.s

\* the statement as it was made, for every struct of supported kinds; TLC
\* finds it violated
C14_RoundTripAnyRecord ==
    AllSupported =>
        /\ Marshalled /\ ~BadArgument(pre.i) => err = Nil
        /\ RoundTripped => err = Nil /\ s = sent.s

\* a struct with a string of reserved characters, the greatest uint64 and the
\* least int64 came back
C14_Witness ==
    /\ RoundTripped /\ AllSupported /\ AllTaggedApart
    /\ st.name = "person"
    /\ s = sent.s /\ s # ZeroStruct

(***************************************************************************)
(* C15: decoding into a tagged, writable field whose kind is not supported *)
(* (or a slice whose element kind is not), with one value for a scalar     *)
(* field and one or more for a slice, does not panic and does not assign:  *)
(* Unmarshal returns an UnmarshalTypeError whose cause is "type <type>     *)
(* cannot be unmarshalled from form", <type> the type of the field or of   *)
(* the slice's element.  With two or more values for a scalar field the    *)
(* cause is that of the arity rule; the field is not assigned either.      *)
(***************************************************************************)
\* the field's kind, or its element kind, is not supported
Unsupported(k) ==
    IF IsSequence(k) THEN st.fields[k].type.elem \notin SupportedKinds
    ELSE st.fields[k].type.kind \notin SupportedKinds

\* the cause for the unsupported kind of the model's structs
UnsupportedCause == "type map[string]string cannot be unmarshalled from form"

C15_UnsupportedKind ==
    /\ err.kind # "panic" \/ op # "Unmarshal"
    /\ \A k \in Fields :
          Reached(k) /\ Tagged(k) /\ Writable(k) /\ Unsupported(k)
          /\ Len(Supplied(k)) >= 1 =>
              /\ FailedAt(k)
              /\ s[k] = pre.s[k]
              /\ err.Err = IF ~IsSequence(k) /\ Len(Supplied(k)) >= 2
                              THEN "cannot unmarshal more than one value for non-slice field"
                              ELSE UnsupportedCause

\* the statement as it was made, for every tagged field and every number of
\* values; TLC finds it violated
C15_UnsupportedAnyCount ==
    /\ err.kind # "panic" \/ op # "Unmarshal"
    /\ \A k \in Fields :
          Reached(k) /\ Tagged(k) /\ Unsupported(k) /\ Len(Supplied(k)) >= 1 =>
              /\ FailedAt(k)
              /\ s[k] = pre.s[k]
              /\ err.Err = UnsupportedCause

\* a slice of maps was given two values and Unmarshal returned the cause
C15_Witness ==
    \E k \in Fields :
        /\ FailedAt(k) /\ Tagged(k) /\ Writable(k)
        /\ st.fields[k].type = SliceOf("map")
        /\ Len(Supplied(k)) = 2
        /\ err.Err = UnsupportedCause

(***************************************************************************)
(* C16: Unmarshal writes to a field only if at least one value is supplied *)
(* for its tag and the field is writable: a tagged field that is not       *)
(* writable is skipped without error and without assignment, however many  *)
(* values there are, and a field with no value is never assigned, whatever *)
(* its kind.                                                               *)
(***************************************************************************)
C16_WritesOnlyWritable ==
    op = "Unmarshal" =>
        \A k \in Fields :
            /\ s[k] # pre.s[k] => Len(Supplied(k)) >= 1 /\ Writable(k)
            /\ ~Writable(k) \/ Len(Supplied(k)) = 0 => ~FailedAt(k)

\* Unmarshal returned nil although an unexported tagged field had two values,
\* and the field is as before
C16_Witness ==
    /\ Unmarshalled /\ err = Nil
    /\ \E k \in Fields :
          /\ Tagged(k) /\ ~Writable(k)
          /\ Len(Supplied(k)) >= 2
          /\ s[k] = pre.s[k]

(***************************************************************************)
(* C17: two calls running concurrently on distinct structs and distinct    *)
(* requests do not interfere: under every interleaving of their steps each *)
(* call returns what it returns when it runs alone, and leaves its struct  *)
(* and its request as it leaves them when it runs alone.                   *)
(***************************************************************************)
\* a call run from its entry to its return with nothing in between
RECURSIVE Alone(_)
Alone(c) == IF c.pc \in {"unmarshal", "marshal"} THEN Alone(Stepped(c)) ELSE c

\* the first goroutine as a record
First ==
    [st |-> st, s |-> s, RawQuery |-> RawQuery, Form |-> Form, pc |-> pc,
     op |-> op, i |-> i, form |-> form, err |-> err, pre |-> pre]

\* goroutine c as its last call found it
Before(c) ==
    [c EXCEPT !.s = c.pre.s, !.RawQuery = c.pre.RawQuery, !.Form = c.pre.Form]

\* what a call leaves: the error, the struct, the request
Outcome(c) == <<c.err, c.s, c.RawQuery, c.Form>>

\* the call of goroutine c has returned what it returns alone
AsAlone(c) ==
    c.pc = "done" => Outcome(c) = Outcome(Alone(Called(Before(c), c.op, c.pre.i)))

C17_NoInterference == AsAlone(First) /\ AsAlone(other)

\* the first goroutine's Marshal has returned with a query written while
\* the second is inside the loop of its own Marshal with values appended
C17_Witness ==
    /\ pc = "done" /\ op = "Marshal" /\ err = Nil /\ RawQuery # pre.RawQuery
    /\ other.pc = "marshal" /\ other.i = 2 /\ other.form # EmptyValues

(***************************************************************************)
(* C18: when an element of a sequence field (an array given as many values *)
(* as it has elements, or a slice) fails to convert, the cause of the      *)
(* error returned is that of the first failing element in positional       *)
(* order, its Value is the bracketed list of all the raw values joined by  *)
(* ", ", and its Type is the declared type of the sequence, not of the     *)
(* element.                                                                *)
(***************************************************************************)
\* the cause for a literal that does not convert to an element kind of
\* Spec's structs
ElementCause(elem, lit) ==
    CASE elem = "map" -> UnsupportedCause
      [] elem = "int8" /\ lit = "300" -> "300 overflows int8 value"
      [] elem = "int8" -> "strconv.ParseInt: parsing \"" \o lit \o "\": invalid syntax"
      [] OTHER -> "strconv.ParseBool: parsing \"" \o lit \o "\": invalid syntax"

\* the values from the k-th on, each but the last followed by ", "
RECURSIVE Listed(_, _)
Listed(values, k) ==
    IF k > Len(values) THEN ""
    ELSE IF k = Len(values) THEN values[k]
    ELSE values[k] \o ", " \o Listed(values, k + 1)

\* the declared type of a sequence field of Spec's structs
SequenceType(type) ==
    LET elem == IF type.elem = "map" THEN "map[string]string" ELSE type.elem IN
    IF type.kind = "slice" THEN "[]" \o elem
    ELSE "[" \o ToString(type.len) \o "]" \o elem

C18_ElementError ==
    \A k \in Fields :
        LET values == Supplied(k)
            type == st.fields[k].type
            bad == {p \in 1..Len(values) : ~Convertible(type.elem, values[p])}
        IN  FailedAt(k) /\ IsSequence(k)
            /\ (type.kind = "array" => Len(values) = type.len) =>
                /\ bad # {}
                /\ LET p == CHOOSE x \in bad : \A y \in bad : x <= y IN
                   err.Err = ElementCause(type.elem, values[p])
                /\ err.Value = "[" \o Listed(values, 1) \o "]"
                /\ err.Type = SequenceType(type)

\* of three values for a slice of int8 the second overflows and the third
\* is no number: the cause is the overflow
C18_Witness ==
    \E k \in Fields :
        /\ FailedAt(k)
        /\ st.fields[k].type = SliceOf("int8")
        /\ Supplied(k) = <<"1", "300", "x">>
        /\ err.Err = "300 overflows int8 value"
        /\ err.Value = "[1, 300, x]"
        /\ err.Type = "[]int8"

(***************************************************************************)
(* C19: a MarshalTypeError returned by Marshal carries the name of the     *)
(* struct type, the declared name of the first tagged field, in declared   *)
(* order, that cannot be formatted, and the declared type of that field;   *)
(* its Value is the field's value for a scalar field and the value of the  *)
(* field's first element for a sequence field.  For a sequence field with  *)
(* an unsupported element kind the Field is the struct field's name and    *)
(* the Type is the type of the sequence.                                   *)
(***************************************************************************)
\* the tagged fields Marshal cannot format: of an unsupported kind, or a
\* sequence with an element of an unsupported kind
Unformattable ==
    {k \in Fields : Tagged(k) /\ Unsupported(k) /\ (IsSequence(k) => Len(s[k]) >= 1)}

\* the declared type of a field of an unsupported kind of Spec's structs
DeclaredType(k) ==
    IF IsSequence(k) THEN SequenceType(st.fields[k].type) ELSE "map[string]string"

\* what a MarshalTypeError names but for its Value
NamesFirstUnformattable(k) ==
    /\ k \in Unformattable /\ \A j \in Unformattable : k <= j
    /\ err.Struct = st.name
    /\ err.Field = st.fields[k].name
    /\ err.Type = DeclaredType(k)

C19_MarshalTypeErrorFields ==
    Marshalled /\ err.kind = "MarshalTypeError" =>
        /\ NamesFirstUnformattable(i)
        /\ IF IsSequence(i)
              THEN /\ err.Value.type = "map[string]string"
                   /\ err.Value.v = s[i][1]
              ELSE /\ err.Value.type = DeclaredType(i)
                   /\ err.Value.v = s[i]

\* the statement as it was made: the Value is the field's value, for a
\* sequence field too; TLC finds it violated for a slice of maps
C19_ValueIsFieldValue ==
    Marshalled /\ err.kind = "MarshalTypeError" =>
        /\ NamesFirstUnformattable(i)
        /\ err.Value.type = DeclaredType(i)
        /\ err.Value.v = s[i]

\* Marshal returned the error for a slice of maps with one element
C19_Witness ==
    /\ Marshalled /\ err.kind = "MarshalTypeError"
    /\ st.fields[i].type = SliceOf("map")
    /\ err.Field = "T" /\ err.Struct = "withMaps"
    /\ err.Type = "[]map[string]string"
    /\ err.Value = [type |-> "map[string]string", v |-> AMap]

(***************************************************************************)
(* C20: the query string Marshal writes on success lists its keys in       *)
(* ascending order whatever the order of the fields, the values under one  *)
(* key in the order they were appended (field order, then element order),  *)
(* and is empty for a struct none of whose fields contributes.             *)
(***************************************************************************)
\* the "key=value" segments of a query string, in the order written
RECURSIVE Segments(_)
Segments(query) ==
    IF query = "" THEN <<>>
    ELSE LET c == Cut(query, "&") IN <<c[1]>> \o Segments(c[2])

SegmentKey(seg) == Unescaped(Cut(seg, "=")[1])

SegmentValue(seg) == Unescaped(Cut(seg, "=")[2])

\* the values written under a key, in the order written
RECURSIVE Under(_, _)
Under(segs, key) ==
    IF segs = <<>> THEN <<>>
    ELSE (IF SegmentKey(Head(segs)) = key THEN <<SegmentValue(Head(segs))>> ELSE <<>>)
         \o Under(Tail(segs), key)

\* field k adds at least one value to the mapping
Participates(k) == Tagged(k) /\ (IsSequence(k) => Len(s[k]) >= 1)

\* C20: after a successful Marshal the keys of RawQuery ascend, each key
\* carries the values its fields contributed in field order then element
\* order, and RawQuery is empty when no field participates
C20_QueryOrder ==
    Marshalled /\ err = Nil =>
        LET segs == Segments(RawQuery) IN
        /\ \A p \in 1..Len(segs) : EscapesOk(segs[p]) /\ IndexOf(segs[p], "=") # 0
        /\ \A p \in 1..(Len(segs) - 1) :
              ~StrLess(SegmentKey(segs[p + 1]), SegmentKey(segs[p]))
        /\ \A key \in {st.fields[k].tag : k \in Fields}
                      \cup {SegmentKey(segs[p]) : p \in 1..Len(segs)} :
              Under(segs, key) = Emitted(key, Len(st.fields))
        /\ (\A k \in Fields : ~Participates(k)) => RawQuery = ""

\* a struct whose tags descend where its fields ascend was written with the
\* keys ascending and the two values of one key in element order
C20_Witness ==
    /\ Marshalled /\ err = Nil
    /\ \E j, k \in Fields :
          /\ j < k /\ Participates(j) /\ Participates(k)
          /\ StrLess(st.fields[k].tag, st.fields[j].tag)
    /\ \E k \in Fields : IsSequence(k) /\ Tagged(k) /\ Len(s[k]) >= 2
    /\ RawQuery = "a+b=-9223372036854775808&age=18446744073709551615"
                  \o "&name=true&name=false&pets=a+b%26c%3Dd%25%2Be%3B"

(***************************************************************************)
(* C21: the field whose conversion fails keeps its complete previous       *)
(* value; when an element of a sequence field fails, none of the elements  *)
(* converted before it shows in the field.                                 *)
(***************************************************************************)
\* C21: when Unmarshal returns the error of field k, field k holds what it
\* held when Unmarshal was called, every element included
C21_FieldAtomicity ==
    \A k \in Fields : FailedAt(k) => s[k] = pre.s[k]

\* the second value of a sequence field failed after the first had been
\* converted to something the field did not hold: the field is as before
C21_Witness ==
    \E k \in Fields :
        /\ FailedAt(k) /\ IsSequence(k) /\ Writable(k)
        /\ Len(Supplied(k)) >= 2 /\ Len(pre.s[k]) >= 1
        /\ Convertible(st.fields[k].type.elem, Supplied(k)[1])
        /\ Converted(st.fields[k].type.elem, Supplied(k)[1]) # pre.s[k][1]
        /\ ~Convertible(st.fields[k].type.elem, Supplied(k)[2])
        /\ s[k] = pre.s[k]

(***************************************************************************)
(* C22: Unmarshal run twice in succession with the same mapping returns    *)
(* the same result both times and leaves the struct as one run leaves it;  *)
(* a slice field is replaced, never appended to.                           *)
(***************************************************************************)
\* an Unmarshal call has returned that was made with the argument of the
\* kept call and found the struct and the request as the kept call left them
Repeated ==
    /\ Unmarshalled /\ kept.ok
    /\ pre.i = kept.i
    /\ pre.s = kept.s
    /\ pre.RawQuery = kept.RawQuery
    /\ pre.Form = kept.Form

\* the kept call ran with a mapping or refused its argument: r.ParseForm()
\* reported no error to it
WithMapping == kept.err.kind # "error"

====
